---------------------------- MODULE Spec2Model ----------------------------
(***************************************************************************)
(* ConfigManager.get(): a remote JSON configuration cached in              *)
(* chrome.storage.local with a two-minute freshness window and a stale     *)
(* fallback.  Every await of get() is a yield point, so several calls of   *)
(* get() can be pending at once; each call is a small process whose        *)
(* program counter names the operation it is awaiting.                     *)
(***************************************************************************)
EXTENDS Integers, Sequences, FiniteSets

(* ------------------------------ bounds --------------------------------- *)

\* payloads are 0..MaxPayload; 0 stands for the falsy JSON values
\* (0, "", false, null), every other number for a distinct object
MaxPayload == 1

\* the clock stops advancing beyond this value (milliseconds)
MaxClock == 240000

(* --------------------------- program constants ------------------------- *)

CACHE_DURATION == 2 * 60 * 1000

\* the value of a key that chrome.storage.local does not hold (undefined)
Absent == -1

Payloads == 0 .. MaxPayload

\* get() invocations that may be pending at the same time
Calls == {"c1", "c2"}

\* steps by which Date.now() advances between two continuations
TickSizes == {CACHE_DURATION \div 2, CACHE_DURATION - 1}

\* JavaScript truthiness of a stored value: undefined and 0 are falsy
Truthy(v) == v # Absent /\ v # 0

VARIABLES
    clock,      \* Date.now()
    store,      \* chrome.storage.local: [payload |-> CACHE_KEY, ts |-> CACHE_TIMESTAMP_KEY]
    calls,      \* per get() call: its position and its locals
    inflight    \* the store and network operations issued and not yet settled: <<call, operation>>

\* compress_image.js: one run of main() on an existing image
VARIABLES
    step,           \* the position of main() / compressImageWithSips()
    targetSizeKB,   \* parseInt(args[1]) || 400
    samePath,       \* inputPath === outputPath (the image is already <name>.jpg)
    currentSize,    \* fs.statSync(outputPath).size
    quality,        \* the formatOptions value last applied
    width,          \* pixelWidth of the file being compressed
    inputFile,      \* the file at inputPath: "original", "converted" or "deleted"
    tempFile        \* whether .temp_compress exists

config == <<clock, store, calls, inflight>>

compressor == <<step, targetSizeKB, samePath, currentSize, quality, width, inputFile, tempFile>>

vars == <<clock, store, calls, inflight, step, targetSizeKB, samePath, currentSize, quality,
          width, inputFile, tempFile>>

\* pc: "idle"      get() not called (or its result already consumed)
\*     "read"      awaiting chrome.storage.local.get([CACHE_KEY, CACHE_TIMESTAMP_KEY])
\*     "fetch"     awaiting fetch(GITHUB_PROMPTS_URL)
\*     "json"      awaiting response.json()
\*     "set"       awaiting chrome.storage.local.set({...})
\*     "fallback"  awaiting chrome.storage.local.get([CACHE_KEY]) in the catch block
\*     "returned"  the promise of get() is resolved with ret
\*     "thrown"    the promise of get() is rejected
\* now and data are the locals of the try block that later steps read; err is
\* the error the catch block caught; fetches counts the calls of fetch();
\* cachedPrompts is cache[CACHE_KEY] of the first read (line 11)
NewCall ==
    [pc |-> "idle", now |-> Absent, data |-> Absent, ret |-> Absent,
     err |-> "none", fetches |-> 0, cachedPrompts |-> Absent]

\* the catch block: now and data are out of scope, the fallback read is issued
Caught(r, e) == [r EXCEPT !.err = e, !.now = Absent, !.data = Absent, !.pc = "fallback"]

\* get() returns v: its promise resolves and its locals are gone
Returned(r, v) == [r EXCEPT !.ret = v, !.now = Absent, !.data = Absent, !.pc = "returned"]

EmptyStore == [payload |-> Absent, ts |-> Absent]

\* the extension is loaded: nothing cached, no get() called
ConfigInit ==
    /\ clock = 0
    /\ store = EmptyStore
    /\ calls = [c \in Calls |-> NewCall]
    /\ inflight = {}

\* compress_image.js is not running
CompressorIdle ==
    /\ step = "idle"
    /\ targetSizeKB = 400
    /\ samePath = FALSE
    /\ currentSize = 0
    /\ quality = 80
    /\ width = 0
    /\ inputFile = "original"
    /\ tempFile = FALSE

Init == ConfigInit /\ CompressorIdle

(* ------------------------- the pieces of get() ------------------------- *)

\* mutant of IsFresh: the window compared with <= instead of <
IsFreshInclusive(cachedPrompts, cacheTime, now) ==
    /\ Truthy(cachedPrompts)
    /\ Truthy(cacheTime)
    /\ now - cacheTime <= CACHE_DURATION

\* line 14: cachedPrompts && cacheTime && (now - cacheTime < CACHE_DURATION)
IsFresh(cachedPrompts, cacheTime, now) ==
    /\ Truthy(cachedPrompts)
    /\ Truthy(cacheTime)
    /\ now - cacheTime < CACHE_DURATION

\* mutant of CacheEntry: only CACHE_KEY is written, the timestamp entry is kept
CacheEntryPayloadOnly(data, now) == [payload |-> data, ts |-> store.ts]

\* mutant of CacheEntry: the expiry time is stored instead of the fetch time
CacheEntryExpiry(data, now) == [payload |-> data, ts |-> now + CACHE_DURATION]

\* lines 27-30: the object handed to chrome.storage.local.set
CacheEntry(data, now) == [payload |-> data, ts |-> now]

\* mutant of FallbackValue: the fallback serves the cache only within its window
FallbackValueFreshOnly(cache) ==
    IF cache.ts # Absent /\ clock - cache.ts < CACHE_DURATION THEN cache.payload ELSE Absent

\* mutant of FallbackValue: cache[CACHE_KEY] || undefined
FallbackValueTruthy(cache) == IF Truthy(cache.payload) THEN cache.payload ELSE Absent

\* mutant of FallbackValue: cache[CACHE_KEY] ?? 0, a default instead of undefined
FallbackValueDefault(cache) == IF cache.payload = Absent THEN 0 ELSE cache.payload

\* lines 37-38: cache[CACHE_KEY] of the fallback read
FallbackValue(cache) == cache.payload

\* line 15: the value returned on a cache hit
HitValue(cachedPrompts) == cachedPrompts

\* mutant of FetchedValue: the previous cache is returned when there is one
FetchedValuePreferCached(data, cached) == IF cached # Absent THEN cached ELSE data

\* line 31: the value returned after a successful fetch
FetchedValue(data, cached) == data

Set(c, r) == calls' = [calls EXCEPT ![c] = r]

\* call c issues operation op and suspends on it (await)
Issue(c, op) == inflight' = inflight \cup {<<c, op>>}

\* the operation call c awaits settles and c issues nothing more
Settle(c, op) == inflight' = inflight \ {<<c, op>>}

\* mutant of Then: the next operation is issued without awaiting the pending one
ThenNoAwait(c, op, next) == inflight' = inflight \cup {<<c, next>>}

\* the operation call c awaits settles and its continuation issues the next one
Then(c, op, next) == inflight' = (inflight \ {<<c, op>>}) \cup {<<c, next>>}

(* ------------------------------ actions -------------------------------- *)

\* the host calls ConfigManager.get(); get() runs up to its first await
Invoke(c) ==
    /\ calls[c].pc \in {"idle", "returned", "thrown"}
    /\ Set(c, [NewCall EXCEPT !.pc = "read"])
    /\ Issue(c, "get2")
    /\ UNCHANGED <<clock, store>>
    /\ UNCHANGED compressor

\* mutant of CacheHit: a hit also renews the stored timestamp (sliding expiry)
CacheHitTouch(c) ==
    /\ calls[c].pc = "read"
    /\ IsFresh(store.payload, store.ts, clock)
    /\ Set(c, Returned([calls[c] EXCEPT !.cachedPrompts = store.payload],
                        HitValue(store.payload)))
    /\ store' = [store EXCEPT !.ts = clock]
    /\ Settle(c, "get2")
    /\ UNCHANGED clock
    /\ UNCHANGED compressor

\* lines 10-16: the read resolves, the cache is fresh, get() returns it
CacheHit(c) ==
    /\ calls[c].pc = "read"
    /\ IsFresh(store.payload, store.ts, clock)
    /\ Set(c, Returned([calls[c] EXCEPT !.cachedPrompts = store.payload],
                        HitValue(store.payload)))
    /\ Settle(c, "get2")
    /\ UNCHANGED <<clock, store>>
    /\ UNCHANGED compressor

\* lines 10-19: the read resolves, the cache is missing or expired, fetch is issued
CacheMiss(c) ==
    /\ calls[c].pc = "read"
    /\ ~IsFresh(store.payload, store.ts, clock)
    /\ Set(c, [calls[c] EXCEPT !.cachedPrompts = store.payload, !.now = clock,
                               !.fetches = @ + 1, !.pc = "fetch"])
    /\ Then(c, "get2", "fetch")
    /\ UNCHANGED <<clock, store>>
    /\ UNCHANGED compressor

\* lines 19-23: the response arrives with response.ok, response.json() is issued
FetchOk(c) ==
    /\ calls[c].pc = "fetch"
    /\ Set(c, [calls[c] EXCEPT !.pc = "json"])
    /\ Then(c, "fetch", "json")
    /\ UNCHANGED <<clock, store>>
    /\ UNCHANGED compressor

\* mutant of FetchFail: a failed fetch is retried once before the catch block runs
FetchFailRetry(c) ==
    /\ calls[c].pc = "fetch"
    /\ IF calls[c].fetches < 2
          THEN /\ Set(c, [calls[c] EXCEPT !.fetches = @ + 1])
               /\ UNCHANGED inflight
          ELSE /\ Set(c, Caught(calls[c], "transport"))
               /\ Then(c, "fetch", "get1")
    /\ UNCHANGED <<clock, store>>
    /\ UNCHANGED compressor

\* lines 19-21, 33-37: the response is not ok, or fetch rejects; the catch
\* block issues the fallback read
FetchFail(c) ==
    /\ calls[c].pc = "fetch"
    /\ \E e \in {"status", "transport"} :
          Set(c, Caught(calls[c], e))
    /\ Then(c, "fetch", "get1")
    /\ UNCHANGED <<clock, store>>
    /\ UNCHANGED compressor

\* lines 23-30: the body parses to data, chrome.storage.local.set is issued
JsonOk(c) ==
    /\ calls[c].pc = "json"
    /\ \E d \in Payloads :
          Set(c, [calls[c] EXCEPT !.data = d, !.pc = "set"])
    /\ Then(c, "json", "set")
    /\ UNCHANGED <<clock, store>>
    /\ UNCHANGED compressor

\* lines 23, 33-37: the body does not parse
JsonFail(c) ==
    /\ calls[c].pc = "json"
    /\ Set(c, Caught(calls[c], "parse"))
    /\ Then(c, "json", "get1")
    /\ UNCHANGED <<clock, store>>
    /\ UNCHANGED compressor

\* lines 27-31: the write resolves, get() returns data
SetDone(c) ==
    /\ calls[c].pc = "set"
    /\ store' = CacheEntry(calls[c].data, calls[c].now)
    /\ Set(c, Returned(calls[c], FetchedValue(calls[c].data, store.payload)))
    /\ Settle(c, "set")
    /\ UNCHANGED clock
    /\ UNCHANGED compressor

\* mutant of FallbackDone: the catch block returns cachedPrompts of the first read
FallbackDoneFirstRead(c) ==
    /\ calls[c].pc = "fallback"
    /\ Set(c, Returned(calls[c], calls[c].cachedPrompts))
    /\ Settle(c, "get1")
    /\ UNCHANGED <<clock, store>>
    /\ UNCHANGED compressor

\* lines 37-38: the fallback read resolves, get() returns cache[CACHE_KEY]
FallbackDone(c) ==
    /\ calls[c].pc = "fallback"
    /\ Set(c, Returned(calls[c], FallbackValue(store)))
    /\ Settle(c, "get1")
    /\ UNCHANGED <<clock, store>>
    /\ UNCHANGED compressor

\* line 10, 33-37: the first read rejects; the catch block reads again
ReadFail(c) ==
    /\ calls[c].pc = "read"
    /\ Set(c, Caught(calls[c], "storeRead"))
    /\ Then(c, "get2", "get1")
    /\ UNCHANGED <<clock, store>>
    /\ UNCHANGED compressor

\* lines 27, 33-37: the write rejects and leaves the store as it was
SetFail(c) ==
    /\ calls[c].pc = "set"
    /\ Set(c, Caught(calls[c], "storeWrite"))
    /\ Then(c, "set", "get1")
    /\ UNCHANGED <<clock, store>>
    /\ UNCHANGED compressor

\* line 37: the read of the catch block rejects; nothing catches it
FallbackFail(c) ==
    /\ calls[c].pc = "fallback"
    /\ Set(c, [calls[c] EXCEPT !.err = "storeRead", !.pc = "thrown"])
    /\ Settle(c, "get1")
    /\ UNCHANGED <<clock, store>>
    /\ UNCHANGED compressor

\* Date.now() advances
Tick ==
    /\ \E d \in TickSizes :
          /\ clock + d <= MaxClock
          /\ clock' = clock + d
    /\ UNCHANGED <<store, calls, inflight>>
    /\ UNCHANGED compressor

\* the store works (spec section 7 (a): store failures are assumed not to occur)
Next ==
    \/ \E c \in Calls :
          \/ Invoke(c)
          \/ CacheHit(c)
          \/ CacheMiss(c)
          \/ FetchOk(c)
          \/ FetchFail(c)
          \/ JsonOk(c)
          \/ JsonFail(c)
          \/ SetDone(c)
          \/ FallbackDone(c)
    \/ Tick

Spec == Init /\ [][Next]_vars

\* chrome.storage.local may reject a read or a write
NextStoreFault ==
    \/ Next
    \/ \E c \in Calls :
          \/ ReadFail(c)
          \/ SetFail(c)
          \/ FallbackFail(c)

SpecStoreFault == Init /\ [][NextStoreFault]_vars

TypeOK ==
    /\ clock \in 0 .. MaxClock
    /\ store.payload = Absent \/ store.payload \in Payloads
    /\ store.ts = Absent \/ store.ts \in 0 .. MaxClock
    /\ \A c \in Calls :
          /\ calls[c].pc \in {"idle", "read", "fetch", "json", "set", "fallback",
                               "returned", "thrown"}
          /\ calls[c].fetches \in 0 .. 1


(* ------------------------------- claims -------------------------------- *)

\* the errors of the network fetch: non-success status, transport error,
\* a body that does not parse
NetErrors == {"status", "transport", "parse"}

\* call c completes the operation it awaits at p in this step
Leaves(c, p) == calls[c].pc = p /\ calls'[c].pc # p

\* call c returns in this step
Returns(c) == calls[c].pc # "returned" /\ calls'[c].pc = "returned"

\* the store holds a payload and a timestamp, and its age at the clock is below
\* the freshness window
StoredFresh == store.payload # Absent /\ store.ts # Absent /\ clock - store.ts < CACHE_DURATION

\* the store holds a payload and a timestamp whose age has reached the window
StoredExpired == store.payload # Absent /\ store.ts # Absent /\ clock - store.ts >= CACHE_DURATION

\* C1: a get() that reads a payload P stored with timestamp T at a clock T'
\* with T' - T < 120000 returns P and issues no fetch, for every payload P and
\* every T >= 0 (T = 0 included)
C1_FreshHitNoFetch ==
    [][\A c \in Calls :
          (Leaves(c, "read") /\ StoredFresh) =>
              /\ calls'[c].pc = "returned"
              /\ calls'[c].ret = store.payload
              /\ calls'[c].fetches = 0]_vars

\* C2: a get() that reads a payload stored with timestamp T at a clock T' with
\* T' - T >= 120000 (the boundary included) issues one fetch when the read
\* completes, and no step of the call after that issues another
C2_ExpiredFetchesOnce ==
    [][\A c \in Calls :
          /\ (Leaves(c, "read") /\ StoredExpired) =>
                 (calls'[c].pc = "fetch" /\ calls'[c].fetches = 1)
          /\ (calls[c].pc \in {"fetch", "json", "set", "fallback"}) =>
                 (calls'[c].fetches = calls[c].fetches /\ calls[c].fetches = 1)]_vars

\* a call is awaiting the one fetch it issued at age exactly 120000
C2_Witness ==
    \E c \in Calls :
        /\ calls[c].pc = "fetch"
        /\ calls[c].fetches = 1
        /\ store.payload # Absent
        /\ store.ts # Absent
        /\ calls[c].now - store.ts = CACHE_DURATION

\* C3: when the fetch of a get() failed (status, transport or parse error) and
\* the store holds a payload P at the fallback read, however old, get() returns P
C3_StaleServing ==
    [][\A c \in Calls :
          (Leaves(c, "fallback") /\ calls[c].err \in NetErrors /\ store.payload # Absent) =>
              (calls'[c].pc = "returned" /\ calls'[c].ret = store.payload)]_vars

\* a call whose fetch failed has returned the stored payload past its window
C3_Witness ==
    \E c \in Calls :
        /\ calls[c].pc = "returned"
        /\ calls[c].err \in NetErrors
        /\ calls[c].ret # Absent
        /\ calls[c].ret = store.payload
        /\ StoredExpired

\* C4: no error of any kind (store read, store write, transport, status, parse)
\* escapes get(): no call ever ends with its promise rejected
C4_NeverThrows == \A c \in Calls : calls[c].pc # "thrown"

\* C5: the store changes only in the step in which a call whose fetch returned
\* a success status and a parseable body completes its write; a cache hit and the
\* fallback path leave both entries unchanged
C5_WritesOnlyOnSuccess ==
    [][/\ (store' # store) =>
              \E c \in Calls :
                  /\ Leaves(c, "set")
                  /\ calls[c].data \in Payloads
                  /\ calls[c].err = "none"
                  /\ calls[c].fetches = 1
       /\ \A c \in Calls :
              (Leaves(c, "read") \/ Leaves(c, "fallback") \/ Leaves(c, "fetch")
                  \/ Leaves(c, "json")) => store' = store]_vars

\* one call has returned from a cache hit and the other from the fallback path,
\* with a payload in the store
C5_Witness ==
    /\ store.payload # Absent
    /\ \E c \in Calls :
          calls[c].pc = "returned" /\ calls[c].fetches = 0 /\ calls[c].ret # Absent
    /\ \E c \in Calls :
          calls[c].pc = "returned" /\ calls[c].err \in NetErrors

\* C6: when the fetch of a get() succeeded with body D, get() writes D and the
\* call's timestamp to the store, overwriting what was there, and returns D; at
\* clock 0 the timestamp written is 0
C6_SuccessWritesAndReturnsData ==
    [][\A c \in Calls :
          Leaves(c, "set") =>
              /\ calls[c].data \in Payloads
              /\ store'.payload = calls[c].data
              /\ store'.ts = calls[c].now
              /\ calls[c].now \in Nat
              /\ (clock = 0 => store'.ts = 0)
              /\ calls'[c].pc = "returned"
              /\ calls'[c].ret = calls[c].data]_vars

\* at clock 0 a call has fetched payload 1, returned it, and the store holds
\* payload 1 and timestamp 0
C6_Witness ==
    /\ clock = 0
    /\ store = [payload |-> 1, ts |-> 0]
    /\ \E c \in Calls :
          /\ calls[c].pc = "returned"
          /\ calls[c].ret = 1
          /\ calls[c].err = "none"
          /\ calls[c].fetches = 1

\* C7: get() returns the absent value exactly when its fetch failed and the
\* store holds no payload at the fallback read; when the store holds a payload
\* or the fetch succeeded, the value returned is a payload
C7_AbsentOnlyWhenBothFail ==
    [][\A c \in Calls :
          Returns(c) =>
              (calls'[c].ret = Absent <=>
                  (calls[c].pc = "fallback" /\ calls[c].err \in NetErrors
                      /\ store.payload = Absent))]_vars

\* a call has returned the absent value after a non-success status, and a call
\* has returned a payload after a failed fetch
C7_Witness ==
    /\ \E c \in Calls :
          calls[c].pc = "returned" /\ calls[c].ret = Absent /\ calls[c].err = "status"
    /\ \E c \in Calls :
          calls[c].pc = "returned" /\ calls[c].ret # Absent /\ calls[c].err \in NetErrors

\* C8: when the store holds no payload and the fetch failed, get() returns the
\* absent value as a normal return, and the store holds no payload and no
\* timestamp afterwards
C8_TotalUnavailability ==
    [][\A c \in Calls :
          (Leaves(c, "fallback") /\ calls[c].err \in NetErrors /\ store.payload = Absent) =>
              /\ calls'[c].pc = "returned"
              /\ calls'[c].ret = Absent
              /\ store' = EmptyStore]_vars

\* a call has returned the absent value after a transport error, the store empty
C8_Witness ==
    \E c \in Calls :
        /\ calls[c].pc = "returned"
        /\ calls[c].ret = Absent
        /\ calls[c].err = "transport"
        /\ calls[c].fetches = 1
        /\ store = EmptyStore

\* the store holds both entries or neither
PairComplete == (store.payload = Absent) <=> (store.ts = Absent)

\* C9: the payload and the timestamp are written in one store write: every
\* state holds both entries or neither, and every change of the store installs
\* the payload and the timestamp of one and the same call
C9_AtomicPair ==
    [][/\ PairComplete /\ PairComplete'
       /\ (store' # store) =>
              \E c \in Calls :
                  /\ Leaves(c, "set")
                  /\ store'.payload = calls[c].data
                  /\ store'.ts = calls[c].now]_vars

\* a call is about to overwrite a stored pair with another payload and another
\* timestamp
C9_Witness ==
    \E c \in Calls :
        /\ calls[c].pc = "set"
        /\ store.payload # Absent
        /\ store.ts # Absent
        /\ calls[c].data # store.payload
        /\ calls[c].now # store.ts

\* C10: with a non-decreasing clock, a stored payload has a timestamp that is
\* at most the clock, so every age now - cacheTime a read computes is >= 0, and
\* no call holds a timestamp in the future
C10_NoFutureTimestamp ==
    /\ store.payload # Absent => (store.ts # Absent /\ clock - store.ts >= 0)
    /\ \A c \in Calls : calls[c].now # Absent => calls[c].now <= clock

\* a read is pending on a stored payload whose timestamp is positive and older
\* than the clock
C10_Witness ==
    /\ store.payload # Absent
    /\ store.ts > 0
    /\ store.ts < clock
    /\ \E c \in Calls : calls[c].pc = "read"

\* the operations of call c that are in flight
InFlightOf(c) == {p \in inflight : p[1] = c}

\* C11: a get() issues at most one fetch; after a failed fetch (or a body that
\* does not parse) the one operation the call has in flight is the fallback
\* read, and when that settles the call returns; no fetch and no store write
\* happens in between
C11_NoRetry ==
    [][\A c \in Calls :
          /\ calls'[c].fetches <= 1
          /\ ((Leaves(c, "fetch") /\ calls'[c].pc # "json")
                 \/ (Leaves(c, "json") /\ calls'[c].pc # "set")) =>
                 /\ calls'[c].pc = "fallback"
                 /\ InFlightOf(c)' = {<<c, "get1">>}
                 /\ calls'[c].fetches = calls[c].fetches
                 /\ store' = store
          /\ Leaves(c, "fallback") =>
                 /\ calls'[c].pc = "returned"
                 /\ InFlightOf(c)' = {}
                 /\ calls'[c].fetches = calls[c].fetches
                 /\ store' = store]_vars

\* after a body that did not parse, a call awaits the fallback read, having
\* issued one fetch
C11_Witness ==
    \E c \in Calls :
        /\ calls[c].pc = "fallback"
        /\ calls[c].err = "parse"
        /\ calls[c].fetches = 1
        /\ InFlightOf(c) = {<<c, "get1">>}

\* C12 as stated: whatever the number of get() invocations, at most one store
\* or network operation of the component is in flight at any time
C12_NoOverlap == Cardinality(inflight) <= 1

\* C12 amended: each get() call has at most one operation in flight, the one
\* its program counter awaits; operations of different calls may overlap
C12_NoOverlapWithinCall ==
    \A c \in Calls :
        /\ Cardinality(InFlightOf(c)) <= 1
        /\ calls[c].pc \in {"idle", "returned", "thrown"} <=> InFlightOf(c) = {}

\* the fetch of one call and the store write of another are in flight together
C12_Witness ==
    \E c, d \in Calls :
        /\ c # d
        /\ <<c, "fetch">> \in inflight
        /\ <<d, "set">> \in inflight

\* C14: the timestamp written after a successful fetch is the clock value at
\* the moment of the write, also when the clock advanced during the fetch
C14_TimestampIsStoreTime ==
    [][\A c \in Calls : Leaves(c, "set") => store'.ts = clock]_vars

\* C15: the fallback returns the payload the store holds when the fallback
\* read settles, not the payload the call's first read obtained
C15_FallbackRereads ==
    [][\A c \in Calls :
          Leaves(c, "fallback") =>
              (calls'[c].pc = "returned" /\ calls'[c].ret = store.payload)]_vars

\* a call whose first read found another value than the store holds now has
\* returned the stored payload from its fallback
C15_Witness ==
    \E c \in Calls :
        /\ calls[c].pc = "returned"
        /\ calls[c].err \in NetErrors
        /\ calls[c].ret # Absent
        /\ calls[c].ret # calls[c].cachedPrompts
        /\ calls[c].ret = store.payload

\* C16: with a non-decreasing clock the stored timestamp never decreases from
\* one store write to the next, whatever the interleaving of pending calls
C16_MonotoneTimestamp ==
    [][(store.ts # Absent) => (store'.ts >= store.ts)]_vars

(* ------------------ compress_image.js: the compressor ------------------ *)

\* target sizes (KB) given on the command line are 1 .. MaxTargetKB
MaxTargetKB == 2

\* the widest image compressed
MaxWidth == 400

INITIAL_QUALITY == 80

QUALITY_STEP == 10

MIN_QUALITY == 10

MIN_WIDTH == 300

DEFAULT_TARGET_KB == 400

BYTES_PER_KB == 1024

\* line 76: parseInt(args[1]) || 400
Targets == (1 .. MaxTargetKB) \cup {DEFAULT_TARGET_KB}

\* pixel widths of the image given to main()
InitWidths == {MIN_WIDTH - 1, MIN_WIDTH, MaxWidth}

\* the sizes fs.statSync may report after a call of sips, around the target t
Sizes(t) == {t * BYTES_PER_KB - 1, t * BYTES_PER_KB, t * BYTES_PER_KB + 1, 2 * t * BYTES_PER_KB}

\* sips -Z n bounds the larger dimension by n: the width becomes n for a
\* landscape image and less for a portrait one
ResizedWidths(n) == {n, n \div 2}

\* lines 29, 37: currentSize > targetSizeKB * 1024
OverTarget(size, t) == size > t * BYTES_PER_KB

\* mutant of CanLowerQuality: quality >= 10 instead of quality > 10
CanLowerQualityInclusive(q) == q >= MIN_QUALITY

\* line 29: quality > 10
CanLowerQuality(q) == q > MIN_QUALITY

\* mutant of TooNarrow: currentWidth <= 300 instead of currentWidth < 300
TooNarrowInclusive(w) == w <= MIN_WIDTH

\* line 41: currentWidth < 300
TooNarrow(w) == w < MIN_WIDTH

\* mutant of NewWidth: the scale factor lost, the width is not reduced
NewWidthNoShrink(w) == w

\* line 43: Math.floor(currentWidth * 0.9)
NewWidth(w) == (w * 9) \div 10

\* main() starts on an existing image, after the checks of lines 62-94
CompressInit ==
    /\ ConfigInit
    /\ step = "main"
    /\ targetSizeKB \in Targets
    /\ samePath \in BOOLEAN
    /\ currentSize = 0
    /\ quality = INITIAL_QUALITY
    /\ width \in InitWidths
    /\ inputFile = "original"
    /\ tempFile = FALSE

\* mutant of MainStart: fs.renameSync instead of fs.copyFileSync
MainStartRename ==
    /\ step = "main"
    /\ tempFile' = ~samePath
    /\ inputFile' = IF samePath THEN inputFile ELSE "deleted"
    /\ step' = "probe"
    /\ UNCHANGED <<targetSizeKB, samePath, currentSize, quality, width>>
    /\ UNCHANGED config

\* lines 107-118: the input is copied to .temp_compress when the paths differ,
\* and compressImageWithSips is called
MainStart ==
    /\ step = "main"
    /\ tempFile' = ~samePath
    /\ step' = "probe"
    /\ UNCHANGED <<targetSizeKB, samePath, currentSize, quality, width, inputFile>>
    /\ UNCHANGED config

\* lines 113, 153-155: fs.copyFileSync throws
CopyFail ==
    /\ step = "main"
    /\ ~samePath
    /\ step' = "failed"
    /\ UNCHANGED <<targetSizeKB, samePath, currentSize, quality, width, inputFile, tempFile>>
    /\ UNCHANGED config

\* lines 10-14: sips reports the dimensions
Probe ==
    /\ step = "probe"
    /\ step' = "convert"
    /\ UNCHANGED <<targetSizeKB, samePath, currentSize, quality, width, inputFile, tempFile>>
    /\ UNCHANGED config

\* lines 16-26: sips writes the JPEG at quality 80 to outputPath, which is the
\* input file itself when the paths are equal
Convert ==
    /\ step = "convert"
    /\ inputFile' = IF samePath THEN "converted" ELSE inputFile
    /\ \E s \in Sizes(targetSizeKB) : currentSize' = s
    /\ quality' = INITIAL_QUALITY
    /\ step' = "quality"
    /\ UNCHANGED <<targetSizeKB, samePath, width, tempFile>>
    /\ UNCHANGED config

\* lines 29-34: one iteration of the quality loop
LowerQuality ==
    /\ step = "quality"
    /\ OverTarget(currentSize, targetSizeKB)
    /\ CanLowerQuality(quality)
    /\ quality' = quality - QUALITY_STEP
    /\ \E s \in Sizes(targetSizeKB) : currentSize' = s
    /\ UNCHANGED <<step, targetSizeKB, samePath, width, inputFile, tempFile>>
    /\ UNCHANGED config

\* line 29: the quality loop ends
QualityDone ==
    /\ step = "quality"
    /\ ~(OverTarget(currentSize, targetSizeKB) /\ CanLowerQuality(quality))
    /\ step' = "resize"
    /\ UNCHANGED <<targetSizeKB, samePath, currentSize, quality, width, inputFile, tempFile>>
    /\ UNCHANGED config

\* lines 37-48: one iteration of the resize loop
Resize ==
    /\ step = "resize"
    /\ OverTarget(currentSize, targetSizeKB)
    /\ ~TooNarrow(width)
    /\ \E w \in ResizedWidths(NewWidth(width)) : width' = w
    /\ \E s \in Sizes(targetSizeKB) : currentSize' = s
    /\ UNCHANGED <<step, targetSizeKB, samePath, quality, inputFile, tempFile>>
    /\ UNCHANGED config

\* lines 37, 41: the resize loop ends, by its condition or by the break
ResizeDone ==
    /\ step = "resize"
    /\ ~OverTarget(currentSize, targetSizeKB) \/ TooNarrow(width)
    /\ step' = "final"
    /\ UNCHANGED <<targetSizeKB, samePath, currentSize, quality, width, inputFile, tempFile>>
    /\ UNCHANGED config

\* lines 50-56: the final dimensions are read and the function returns
Final ==
    /\ step = "final"
    /\ step' = "cleanup"
    /\ UNCHANGED <<targetSizeKB, samePath, currentSize, quality, width, inputFile, tempFile>>
    /\ UNCHANGED config

\* lines 120-151: the temporary file and, when the paths differ, the original
\* are deleted; the result is reported
Cleanup ==
    /\ step = "cleanup"
    /\ tempFile' = FALSE
    /\ inputFile' = IF ~samePath /\ inputFile # "deleted" THEN "deleted" ELSE inputFile
    /\ step' = "done"
    /\ UNCHANGED <<targetSizeKB, samePath, currentSize, quality, width>>
    /\ UNCHANGED config

\* execSync throws in compressImageWithSips (lines 10-11, 18, 31, 38, 44,
\* 51-52) and main() catches it (lines 153-155)
ExecFail ==
    /\ \/ step \in {"probe", "convert", "final"}
       \/ step = "quality" /\ OverTarget(currentSize, targetSizeKB) /\ CanLowerQuality(quality)
       \/ step = "resize" /\ OverTarget(currentSize, targetSizeKB)
    /\ step' = "failed"
    /\ UNCHANGED <<targetSizeKB, samePath, currentSize, quality, width, inputFile, tempFile>>
    /\ UNCHANGED config

NextCompress ==
    \/ MainStart
    \/ CopyFail
    \/ Probe
    \/ Convert
    \/ LowerQuality
    \/ QualityDone
    \/ Resize
    \/ ResizeDone
    \/ Final
    \/ Cleanup
    \/ ExecFail

SpecCompress == CompressInit /\ [][NextCompress]_vars

\* main() is a synchronous script: it keeps running until it ends
FairCompress == SpecCompress /\ WF_vars(NextCompress)

\* compressImageWithSips has returned normally
CompressReturned == step \in {"cleanup", "done"}

\* C13 as stated: whenever compressImageWithSips returns normally the output
\* is at most targetSizeKB * 1024 bytes
C13_ReachesTarget == CompressReturned => ~OverTarget(currentSize, targetSizeKB)

\* C13 amended: whenever compressImageWithSips returns normally, the output is
\* at most targetSizeKB * 1024 bytes, or quality is down to 10 and the width is
\* below 300 (the minimum-width break of line 41)
C13_ReachesTargetOrGivesUp ==
    CompressReturned =>
        \/ ~OverTarget(currentSize, targetSizeKB)
        \/ (quality = MIN_QUALITY /\ width < MIN_WIDTH)

\* the function has returned an image still over the target, after resizing
\* it below the minimum width
C13_Witness ==
    /\ CompressReturned
    /\ OverTarget(currentSize, targetSizeKB)
    /\ width = NewWidth(NewWidth(NewWidth(MaxWidth)))
    /\ width < MIN_WIDTH

\* the steps of the run are over
Terminated == step \in {"done", "failed"}

\* C17: both loops terminate whatever sizes the tool reports: each iteration of
\* the quality loop lowers quality by 10 and never below 10 (at most 7
\* iterations from 80), each iteration of the resize loop strictly decreases
\* the width and starts from a width of at least 300, and every run ends
C17_LoopsTerminate ==
    /\ [][/\ (step = "quality" /\ step' = "quality") =>
                 (quality' = quality - QUALITY_STEP /\ quality' >= MIN_QUALITY
                     /\ (INITIAL_QUALITY - quality') \div QUALITY_STEP <= 7)
          /\ (step = "resize" /\ step' = "resize") =>
                 (width' < width /\ width' <= NewWidth(width) /\ width >= MIN_WIDTH)]_vars
    /\ <>Terminated

\* the quality loop has run its 7 iterations and the resize loop has run three
\* times, and the run has ended
C17_Witness ==
    /\ step = "done"
    /\ quality = MIN_QUALITY
    /\ width = NewWidth(NewWidth(NewWidth(MaxWidth)))

\* C18: a resize step happens only with quality at exactly 10, the size over
\* the target and the width at least 300; the quality returned is one of
\* 10, 20, ..., 80
C18_QualityBeforeSize ==
    [][/\ (step = "resize" /\ step' = "resize") =>
              /\ quality = MIN_QUALITY
              /\ OverTarget(currentSize, targetSizeKB)
              /\ width >= MIN_WIDTH
       /\ CompressReturned' =>
              quality' \in {QUALITY_STEP * k : k \in 1 .. 8}]_vars

\* the image has been resized once, at quality 10, and is still over the target
C18_Witness ==
    /\ step = "resize"
    /\ quality = MIN_QUALITY
    /\ width = NewWidth(MaxWidth)
    /\ OverTarget(currentSize, targetSizeKB)

\* C19 as stated: the original is deleted only after compressImageWithSips
\* returned and only when the paths differ, and whenever compression throws the
\* original still exists with its original content
C19_OriginalKeptOnFailure ==
    [][/\ (inputFile # "deleted" /\ inputFile' = "deleted") =>
              (step = "cleanup" /\ ~samePath)
       /\ (step' = "failed") => (inputFile' = "original")]_vars

\* C19 amended: the original is deleted only after compressImageWithSips
\* returned and only when the paths differ; when compression throws and the
\* paths differ the original still exists with its original content; when the
\* paths are equal the file still exists, but holds the converted content once
\* the conversion of line 18 has run
C19_OriginalKeptWhenPathsDiffer ==
    [][/\ (inputFile # "deleted" /\ inputFile' = "deleted") =>
              (step = "cleanup" /\ ~samePath)
       /\ (step' = "failed" /\ ~samePath) => (inputFile' = "original")
       /\ (step' = "failed" /\ samePath) => (inputFile' \in {"original", "converted"})]_vars

\* compression threw after the copy to .temp_compress, the original untouched
C19_Witness ==
    /\ step = "failed"
    /\ ~samePath
    /\ tempFile
    /\ inputFile = "original"
    /\ quality < INITIAL_QUALITY

=============================================================================
